---- MODULE Spec2Model ----
(***************************************************************************)
(* Logo Similarity Analyzer: the workflow driver (main), the API gateway   *)
(* (_make_request) with its retry, image enumeration and batching          *)
(* (process_images), and the result sink (save_to_spreadsheet).            *)
(*                                                                         *)
(* A string is modelled as the sequence of its tokens.  "/" is always a    *)
(* token of its own, file names are tokenised per character, and fixed     *)
(* path words ("projects", "corpora", ...) are one token each; no token    *)
(* other than "/" contains a slash.                                        *)
(*                                                                         *)
(* Specifications: Spec (a first run of main), SpecRerun (a run whose      *)
(* bucket holds the objects of an earlier run), SpecCount (a run with its  *)
(* HTTP attempts counted, under weak fairness), SpecLossy (a run against a *)
(* service whose answers may be lost after it has acted), SpecSearch       *)
(* (search_similar_images, the failure kinds of the attempts recorded) and *)
(* SpecSink (save_to_spreadsheet).  The history variables last_failure and *)
(* http_total are kept only where `observe` names them.                    *)
(***************************************************************************)
EXTENDS Integers, Sequences, FiniteSets, TLC

----------------------------------------------------------------------------
(* Bounds of the model *)

\* most files in the walked directory tree
MaxFiles == 3
\* batch sizes tried besides the configured one: 1..MaxBatch
MaxBatch == 2
\* the clock shows day 1..MaxDay
MaxDay == 2
\* most rows handed to the result sink
MaxRows == 2
\* max_results values tried besides the default: 1..MaxResults
MaxResults == 2
\* most attempts of a run that the service carries out without its answer arriving
MaxLost == 1

----------------------------------------------------------------------------
(* config.py *)

PROJECT_NUMBER == "your-project-number"
LOCATION == "us-central1"
CORPUS_SETTINGS == [display_name |-> "logo_similarity_corpus", type |-> "IMAGE"]
INDEX_SETTINGS == [display_name |-> "logo_similarity_index", index_type |-> "VISUAL_EMBEDDING"]
BATCH_SIZE == 100
MAX_RETRIES == 3
SUPPORTED_FORMATS ==
    << <<".", "j", "p", "g">>, <<".", "j", "p", "e", "g">>, <<".", "p", "n", "g">> >>

----------------------------------------------------------------------------
(* Strings *)

UpperChars == <<"A","B","C","D","E","F","G","H","I","J","K","L","M",
                "N","O","P","Q","R","S","T","U","V","W","X","Y","Z">>
LowerChars == <<"a","b","c","d","e","f","g","h","i","j","k","l","m",
                "n","o","p","q","r","s","t","u","v","w","x","y","z">>

\* the lower-case letter of each upper-case one
LowerOf ==
    [c \in { UpperChars[n] : n \in 1..Len(UpperChars) } |->
        LowerChars[CHOOSE n \in 1..Len(UpperChars) : UpperChars[n] = c]]

\* str.lower(), per character
LowerChar(c) == IF c \in DOMAIN LowerOf THEN LowerOf[c] ELSE c

Lower(s) == [n \in 1..Len(s) |-> LowerChar(s[n])]

\* str.endswith(suffix)
EndsWith(s, suffix) ==
    /\ Len(suffix) <= Len(s)
    /\ SubSeq(s, Len(s) - Len(suffix) + 1, Len(s)) = suffix

\* str.endswith(tuple): true when the string ends with any member
EndsWithAny(s, suffixes) ==
    \E n \in 1..Len(suffixes) : EndsWith(s, suffixes[n])

\* str.split("/"): the segments between slashes, empty ones included
RECURSIVE SplitFrom(_, _, _)
SplitFrom(s, n, cur) ==
    IF n > Len(s) THEN <<cur>>
    ELSE IF s[n] = "/" THEN <<cur>> \o SplitFrom(s, n + 1, <<>>)
    ELSE SplitFrom(s, n + 1, Append(cur, s[n]))

Split(s) == SplitFrom(s, 1, <<>>)

\* seq[-1]
LastOf(seq) == seq[Len(seq)]

\* str.rfind("/"), 1-based; 0 when there is none
RFindSlash(s) ==
    IF \E n \in 1..Len(s) : s[n] = "/"
    THEN CHOOSE n \in 1..Len(s) : s[n] = "/" /\ \A m \in (n+1)..Len(s) : s[m] # "/"
    ELSE 0

\* os.path.basename(p): what follows the last slash
Basename(p) == SubSeq(p, RFindSlash(p) + 1, Len(p))

\* os.path.join(root, file) for a relative file name
PathJoin(root, file) ==
    IF root = <<>> THEN file
    ELSE IF root[Len(root)] = "/" THEN root \o file
    ELSE root \o <<"/">> \o file

\* the days datetime.now() may show when the clock last showed day d
Now(d) == d..MaxDay

\* strftime('%Y%m%d') on day d of the model's clock
DateStr(d) == IF d = 1 THEN "20240101" ELSE IF d = 2 THEN "20240102" ELSE "20240103"

----------------------------------------------------------------------------
(* The environment: command line, directory tree, service responses *)

\* --image-dir and --bucket
IMAGE_DIR == <<"r">>
BUCKET == <<"bkt">>
\* --spreadsheet-id: absent (None) or given
SpreadsheetIds == {"None", "sheet1"}

\* the files that may exist under the image directory
FilePool ==
    << [dir |-> <<>>,    name |-> <<"a", ".", "p", "n", "g">>],
       [dir |-> <<>>,    name |-> <<"B", ".", "J", "P", "G">>],
       [dir |-> <<>>,    name |-> <<"c", ".", "g", "i", "f">>],
       [dir |-> <<"s">>, name |-> <<"a", ".", "p", "n", "g">>],
       [dir |-> <<"s">>, name |-> <<"d", ".", "j", "p", "e", "g">>] >>

PoolIdx == [n \in 1..Len(FilePool) |-> n]

\* the names of the chosen files that lie in directory d, in listing order
FilesIn(S, d) ==
    LET idx == SelectSeq(PoolIdx, LAMBDA n : n \in S /\ FilePool[n].dir = d)
    IN  [m \in 1..Len(idx) |-> FilePool[idx[m]].name]

\* os.walk(image_dir), top down: one (root, files) entry per directory
Walk(S) ==
    << [root |-> IMAGE_DIR, files |-> FilesIn(S, <<>>)] >> \o
    ( IF FilesIn(S, <<"s">>) = <<>> THEN <<>>
      ELSE << [root |-> PathJoin(IMAGE_DIR, <<"s">>), files |-> FilesIn(S, <<"s">>)] >> )

Trees == { Walk(S) : S \in { T \in SUBSET (1..Len(FilePool)) : Cardinality(T) <= MaxFiles } }

\* response.name values the service may answer a creation request with
ResponseNames(op) ==
    CASE op = "create_corpus" ->
           { <<"projects", "/", "p", "/", "corpora", "/", "c1">>, <<"c2">> }
      [] op = "create_index" ->
           { <<"projects", "/", "p", "/", "corpora", "/", "c1", "/", "indexes", "/", "i1">>,
             <<"operations", "/", "i2", "/">> }
      [] op = "create_index_endpoint" ->
           { <<"projects", "/", "p", "/", "indexEndpoints", "/", "e1">>, <<"/", "e2">> }
      [] OTHER -> { <<"operations", "/", "o1">> }

\* the neighbour lists a findNeighbors response may carry, in the service's order
NeighborLists ==
    { <<>>,
      << [asset |-> "a1", score |-> "0.90"] >>,
      << [asset |-> "a1", score |-> "0.90"], [asset |-> "a2", score |-> "0.95"] >>,
      << [asset |-> "a2", score |-> "0.95"], [asset |-> "a1", score |-> "0.90"] >> }

\* a parsed response body: with response.name, or without the field
NoNameResponse == [has_name |-> FALSE, name |-> <<>>]
Responses(op) ==
    IF op = "find_neighbors"
    THEN { [has_name |-> FALSE, name |-> <<>>, neighbors |-> ns] : ns \in NeighborLists }
    ELSE { [has_name |-> TRUE, name |-> n] : n \in ResponseNames(op) } \cup {NoNameResponse}

\* the ways one HTTP attempt fails: each raises a requests.RequestException
Failures == {"connection_error", "timeout", "http_4xx", "http_5xx"}

TOKEN == "token"
NoSearch == [index_endpoint_id |-> <<>>, query_image_path |-> <<>>, max_results |-> 0]

NoRequest == [op |-> "none", method |-> "none", endpoint |-> <<>>, data |-> <<>>,
              retry_count |-> 0, status |-> "none", response |-> NoNameResponse]

----------------------------------------------------------------------------
VARIABLES
    pc,                 \* where main stands
    args,               \* the parsed command line
    batch_size,         \* config.BATCH_SIZE as configured for the run
    tree,               \* the directory tree os.walk reports
    today,              \* the day datetime.now() showed when last read
    token,              \* analyzer.token
    req,                \* the _make_request call in progress, or the last one
    attempts,           \* HTTP attempts sent for req
    corpus_response, corpus_id,
    index_response, index_id,
    endpoint_response, endpoint_id,
    image_files,        \* process_images: the enumerated list
    i,                  \* process_images: the batch loop's offset (0-based)
    batch, gcs_uris,    \* process_images: the current batch and its URIs
    k,                  \* process_images: the registration loop's position (1-based)
    chunks,             \* history: the batches taken so far
    calls,              \* history: every remote call issued, in order
    objects,            \* object store: the URIs that hold an object
    resources,          \* managed service: what it created, in order
    log,                \* the INFO and ERROR lines logged by main
    exit_status,        \* "running", "zero" or "nonzero"
    sink_in, sink_calls,\* save_to_spreadsheet: its arguments, the update calls issued
    sink_pc,            \* save_to_spreadsheet: "idle", "called", "returned", "raised"
    sent,               \* history: the message of every attempt sent for req
    last_failure,       \* history: the exception of the last attempt, where observed
    http_total,         \* history: HTTP attempts of the whole run, where observed
    observe,            \* which of "kinds", "total" the run's history keeps
    search_in,          \* search_similar_images: its arguments
    search_uri,         \* search_similar_images: the local gcs_uri
    search_out          \* search_similar_images: what it returned

wfvars == <<pc, args, batch_size, tree, today, token, req, attempts,
            corpus_response, corpus_id, index_response, index_id,
            endpoint_response, endpoint_id, image_files, i, batch, gcs_uris, k,
            chunks, calls, objects, resources, log, exit_status>>
sinkvars == <<sink_in, sink_calls, sink_pc>>
wirevars == <<sent, last_failure>>
obsvars == <<http_total, observe>>
searchvars == <<search_in, search_uri, search_out>>
vars == <<wfvars, sinkvars, wirevars, obsvars, searchvars>>

----------------------------------------------------------------------------
(* API gateway *)

BASE_URL == "https://warehouse-visionai.googleapis.com/v1"

BASE == <<"projects", "/", PROJECT_NUMBER, "/", "locations", "/", LOCATION, "/">>

\* the last entry of the call history, with its status set
CloseCall(cs, st) == [cs EXCEPT ![Len(cs)].status = st]

\* _make_request(method, endpoint, data) is entered with retry_count = 0
StartRequest(op, endpoint, data) ==
    /\ req' = [op |-> op, method |-> "POST", endpoint |-> endpoint, data |-> data,
               retry_count |-> 0, status |-> "pending", response |-> NoNameResponse]
    /\ attempts' = 0
    /\ sent' = <<>>
    /\ last_failure' = "none"
    /\ calls' = Append(calls, [op |-> op, endpoint |-> endpoint, data |-> data,
                               status |-> "pending"])

\* what the service holds after it served the request
Serve(r) == Append(resources, [op |-> r.op, endpoint |-> r.endpoint, data |-> r.data])

\* the request once its parsed response has been handed to the caller
Returned(r) == [r EXCEPT !.status = "returned", !.response = NoNameResponse]

\* Exhausted swallowing the failure: the call returns as if it had succeeded
Exhausted_ReturnNone(r) == [r EXCEPT !.status = "ok"]

\* raise Exception("Request failed after ... retries"): the call ends in an error
Exhausted(r) == [r EXCEPT !.status = "raised"]

\* MayRetry with the comparison off by one: one retry too many
MayRetry_OffByOne(r) == r.retry_count <= MAX_RETRIES

\* the except branch of _make_request: retry while retry_count < MAX_RETRIES
MayRetry(r) == r.retry_count < MAX_RETRIES

\* Resend with the method lost: the retry goes out as a GET, without its body
Resend_AsGet(r) == [r EXCEPT !.retry_count = @ + 1, !.method = "GET"]

\* return self._make_request(method, endpoint, data, retry_count + 1)
Resend(r) == [r EXCEPT !.retry_count = @ + 1]

\* what one attempt puts on the wire: method, url, Authorization header, JSON body
Message(r, tok) ==
    [method |-> r.method, url |-> <<BASE_URL, "/">> \o r.endpoint,
     authorization |-> <<"Bearer", tok>>, json |-> r.data]

\* requests.post(url, headers=headers, json=data, timeout=TIMEOUT) is called
Send ==
    /\ req.status = "pending"
    /\ attempts' = attempts + 1
    /\ sent' = Append(sent, Message(req, token))
    /\ http_total' = IF "total" \in observe THEN http_total + 1 ELSE http_total

\* response.raise_for_status(); return response.json()
Answer(resp) ==
    /\ req' = [req EXCEPT !.status = "ok", !.response = resp]
    /\ calls' = CloseCall(calls, "ok")
    /\ last_failure' = "none"

\* except requests.exceptions.RequestException as e: retry, or raise
Fail(failure) ==
    /\ IF MayRetry(req)
       THEN /\ req' = Resend(req)
            /\ UNCHANGED calls
       ELSE /\ req' = Exhausted(req)
            /\ calls' = CloseCall(calls, "failed")
    /\ last_failure' = IF "kinds" \in observe THEN failure ELSE "none"

\* one HTTP attempt of the request in progress: a 2xx answer whose body is
\* returned, or a RequestException that is retried or ends the call
Attempt ==
    /\ Send
    /\ \/ \E resp \in Responses(req.op) :
            /\ Answer(resp)
            /\ resources' = Serve(req)
       \/ \E failure \in Failures :
            /\ Fail(failure)
            /\ UNCHANGED resources
    /\ UNCHANGED <<pc, args, batch_size, tree, today, token,
                   corpus_response, corpus_id, index_response, index_id,
                   endpoint_response, endpoint_id, image_files, i, batch, gcs_uris, k,
                   chunks, objects, log, exit_status, sinkvars, observe, searchvars>>

\* the attempts so far that the service carried out and whose answer was lost
LostAnswers ==
    Len(resources) -
    Cardinality({ n \in 1..Len(calls) : calls[n].op # "upload" /\ calls[n].status = "ok" })

\* one HTTP attempt that the service carries out but whose answer does not arrive
\* within TIMEOUT: requests raises Timeout, the service holds what it created
AttemptLost ==
    /\ Send
    /\ LostAnswers < MaxLost
    /\ Fail("timeout")
    /\ resources' = Serve(req)
    /\ UNCHANGED <<pc, args, batch_size, tree, today, token,
                   corpus_response, corpus_id, index_response, index_id,
                   endpoint_response, endpoint_id, image_files, i, batch, gcs_uris, k,
                   chunks, objects, log, exit_status, sinkvars, observe, searchvars>>

----------------------------------------------------------------------------
(* process_images: enumeration and batching *)

\* IsSupported without lower(): the match is case-sensitive
IsSupported_CaseSensitive(file) == EndsWithAny(file, SUPPORTED_FORMATS)

\* file.lower().endswith(SUPPORTED_FORMATS)
IsSupported(file) == EndsWithAny(Lower(file), SUPPORTED_FORMATS)

\* the two nested loops over os.walk: the supported files, joined to their root
RECURSIVE Enumerate(_)
Enumerate(walk) ==
    IF walk = <<>> THEN <<>>
    ELSE LET kept == SelectSeq(Head(walk).files, IsSupported)
         IN  [n \in 1..Len(kept) |-> PathJoin(Head(walk).root, kept[n])]
             \o Enumerate(Tail(walk))

\* image_files[lo:hi], 0-based and clipped as Python slices are
Slice(s, lo, hi) == SubSeq(s, lo + 1, IF hi < Len(s) THEN hi ELSE Len(s))

\* BatchAt with the slice's end one short: each batch loses its last file
BatchAt_Short(files, lo, size) == Slice(files, lo, lo + size - 1)

\* batch = image_files[i:i + BATCH_SIZE]
BatchAt(files, lo, size) == Slice(files, lo, lo + size)

\* NextOffset stepping one too far: the file after each batch is passed over
NextOffset_Skip(lo, size) == lo + size + 1

\* the loop variable's next value in range(0, len(image_files), BATCH_SIZE)
NextOffset(lo, size) == lo + size

\* the batches the loop takes from offset lo on, in order
RECURSIVE BatchesFrom(_, _, _)
BatchesFrom(files, lo, size) ==
    IF lo < Len(files)
    THEN <<BatchAt(files, lo, size)>> \o BatchesFrom(files, NextOffset(lo, size), size)
    ELSE <<>>

\* DestinationBlob keeping the directories of the local path in the object path
DestinationBlob_FullPath(day, path) == <<"logos", "/", DateStr(day), "/">> \o path

\* f"logos/{date}/{basename}"
DestinationBlob(day, path) == <<"logos", "/", DateStr(day), "/">> \o Basename(path)

\* upload_to_gcs returns f"gs://{bucket_name}/{destination_blob_name}"
GcsUri(bucket, blob) == <<"gs:", "/", "/">> \o bucket \o <<"/">> \o blob

\* the object store after source was written to uri (an existing object is replaced)
Store(objs, uri, source) ==
    { o \in objs : o.uri # uri } \cup { [uri |-> uri, source |-> source] }

\* AssetData registering the object's base name in place of its URI
AssetData_BaseName(gcs_uri) == [display_name |-> Basename(gcs_uri), gcs_uri |-> Basename(gcs_uri)]

\* create_asset's request body
AssetData(gcs_uri) == [display_name |-> Basename(gcs_uri), gcs_uri |-> gcs_uri]

\* ExtractId taking the segment before the last one
ExtractId_Penultimate(resp) ==
    IF Len(Split(resp.name)) > 1 THEN Split(resp.name)[Len(Split(resp.name)) - 1]
    ELSE LastOf(Split(resp.name))

\* response["response"]["name"].split("/")[-1]
ExtractId(resp) == LastOf(Split(resp.name))

----------------------------------------------------------------------------
(* utils/spreadsheet.py: save_to_spreadsheet *)

\* A result row is a dict: the sequence of its <<field, value>> items in
\* insertion order, no field twice.  Cell values are written as strings.
RowPool ==
    { << <<"Query Image", "q1.png">>, <<"Similar Image", "s1.png">>, <<"Similarity Score", "0.90">> >>,
      << <<"Query Image", "q2.png">>, <<"Similar Image", "s2.png">>, <<"Similarity Score", "0.75">> >>,
      << <<"Similarity Score", "0.60">>, <<"Query Image", "q3.png">>, <<"Similar Image", "s3.png">> >>,
      << <<"Query Image", "q4.png">>, <<"Similarity Score", "0.50">> >>,
      << <<"Query Image", "q5.png">>, <<"Rank", "1">> >> }

Ranges == {"Sheet1!A1", "Results!B2"}

RECURSIVE SeqsUpTo(_, _)
SeqsUpTo(S, n) ==
    IF n = 0 THEN { <<>> }
    ELSE SeqsUpTo(S, n - 1) \cup
         { Append(q, x) : q \in { r \in SeqsUpTo(S, n - 1) : Len(r) = n - 1 }, x \in S }

NoSinkCall == [results |-> <<>>, spreadsheet_id |-> "None", range_name |-> "None"]

\* the fields of a row, in insertion order
Fields(row) == [n \in 1..Len(row) |-> row[n][1]]

HasField(row, f) == \E n \in 1..Len(row) : row[n][1] = f

\* row[f]
FieldValue(row, f) == row[CHOOSE n \in 1..Len(row) : row[n][1] = f][2]

\* the members of seq that are not in seen, each once, in order of first appearance
RECURSIVE Unseen(_, _)
Unseen(seq, seen) ==
    IF seq = <<>> THEN <<>>
    ELSE IF \E n \in 1..Len(seen) : seen[n] = Head(seq)
         THEN Unseen(Tail(seq), seen)
         ELSE <<Head(seq)>> \o Unseen(Tail(seq), Append(seen, Head(seq)))

\* pd.DataFrame(list of dicts).columns: the fields in order of first appearance
RECURSIVE ColumnsFrom(_, _)
ColumnsFrom(rows, cols) ==
    IF rows = <<>> THEN cols
    ELSE ColumnsFrom(Tail(rows), cols \o Unseen(Fields(Head(rows)), cols))

Columns(rows) == ColumnsFrom(rows, <<>>)

\* Cell read by the row's own first field, not by the column's name
Cell_FirstField(row, col) == IF HasField(row, col) THEN row[1][2] ELSE "NaN"

\* one cell of the frame: the row's value for the column, NaN when it has none
Cell(row, col) == IF HasField(row, col) THEN FieldValue(row, col) ELSE "NaN"

\* values = [df.columns.values.tolist()] + df.values.tolist()
SheetValues(rows) ==
    LET cols == Columns(rows)
    IN  <<cols>> \o [r \in 1..Len(rows) |-> [c \in 1..Len(cols) |-> Cell(rows[r], cols[c])]]

\* service.spreadsheets().values().update(...).execute(): returns or raises
SaveToSpreadsheet ==
    /\ sink_pc = "called"
    /\ \E ok \in BOOLEAN :
         /\ sink_calls' = Append(sink_calls,
                [method |-> "update",
                 spreadsheetId |-> sink_in.spreadsheet_id,
                 range |-> sink_in.range_name,
                 valueInputOption |-> "RAW",
                 values |-> SheetValues(sink_in.results),
                 status |-> IF ok THEN "ok" ELSE "failed"])
         /\ sink_pc' = IF ok THEN "returned" ELSE "raised"
    /\ UNCHANGED <<sink_in, wfvars, wirevars, obsvars, searchvars>>

\* save_to_spreadsheet called with any rows, spreadsheet id and range; main idle
InitSink ==
    /\ sink_in \in { [results |-> rs, spreadsheet_id |-> "sheet1", range_name |-> rg] :
                     rs \in SeqsUpTo(RowPool, MaxRows), rg \in Ranges }
    /\ sink_calls = <<>>
    /\ sink_pc = "called"
    /\ pc = "idle"
    /\ args = [image_dir |-> IMAGE_DIR, bucket |-> BUCKET, spreadsheet_id |-> "None"]
    /\ batch_size = BATCH_SIZE
    /\ tree = <<>>
    /\ today = 1
    /\ token = ""
    /\ req = NoRequest
    /\ attempts = 0
    /\ corpus_response = NoNameResponse /\ corpus_id = <<>>
    /\ index_response = NoNameResponse /\ index_id = <<>>
    /\ endpoint_response = NoNameResponse /\ endpoint_id = <<>>
    /\ image_files = <<>> /\ i = 0 /\ batch = <<>> /\ gcs_uris = <<>> /\ k = 1
    /\ chunks = <<>>
    /\ calls = <<>>
    /\ objects = {}
    /\ resources = <<>>
    /\ log = <<>>
    /\ exit_status = "running"
    /\ sent = <<>> /\ last_failure = "none" /\ http_total = 0 /\ observe = {}
    /\ search_in = NoSearch /\ search_uri = <<>> /\ search_out = NoNameResponse

NextSink == SaveToSpreadsheet

SpecSink == InitSink /\ [][NextSink]_vars

----------------------------------------------------------------------------
(* main *)

\* main is started: the command line, the configured batch size, the directory
\* tree, the day, what the bucket holds already, and what the history keeps
InitRun(sids, days, stores, obs) ==
    /\ pc = "start"
    /\ args \in { [image_dir |-> IMAGE_DIR, bucket |-> BUCKET, spreadsheet_id |-> sid] :
                  sid \in sids }
    /\ batch_size \in (1..MaxBatch) \cup {BATCH_SIZE}
    /\ tree \in Trees
    /\ today \in days
    /\ token = ""
    /\ req = NoRequest
    /\ attempts = 0
    /\ corpus_response = NoNameResponse /\ corpus_id = <<>>
    /\ index_response = NoNameResponse /\ index_id = <<>>
    /\ endpoint_response = NoNameResponse /\ endpoint_id = <<>>
    /\ image_files = <<>> /\ i = 0 /\ batch = <<>> /\ gcs_uris = <<>> /\ k = 1
    /\ chunks = <<>>
    /\ calls = <<>>
    /\ objects \in stores
    /\ resources = <<>>
    /\ log = <<>>
    /\ exit_status = "running"
    /\ sink_in = NoSinkCall
    /\ sink_calls = <<>>
    /\ sink_pc = "idle"
    /\ sent = <<>> /\ last_failure = "none" /\ http_total = 0 /\ observe = obs
    /\ search_in = NoSearch /\ search_uri = <<>> /\ search_out = NoNameResponse

\* a first run: the bucket is empty
Init == InitRun(SpreadsheetIds, {1}, {{}}, {})

\* Construct swallowing the token failure: the run goes on without a token
Construct_NoToken ==
    /\ pc = "start"
    /\ \E ok \in BOOLEAN :
         IF ok THEN token' = TOKEN /\ pc' = "create_corpus"
               ELSE token' = token /\ pc' = "create_corpus"
    /\ UNCHANGED <<args, batch_size, tree, today, req, attempts,
                   corpus_response, corpus_id, index_response, index_id,
                   endpoint_response, endpoint_id, image_files, i, batch, gcs_uris, k,
                   chunks, calls, objects, resources, log, exit_status, sinkvars, wirevars, obsvars, searchvars>>

\* analyzer = LogoSimilarityAnalyzer(): get_access_token() returns or raises
Construct ==
    /\ pc = "start"
    /\ \E ok \in BOOLEAN :
         IF ok THEN token' = TOKEN /\ pc' = "create_corpus"
               ELSE token' = token /\ pc' = "except"
    /\ UNCHANGED <<args, batch_size, tree, today, req, attempts,
                   corpus_response, corpus_id, index_response, index_id,
                   endpoint_response, endpoint_id, image_files, i, batch, gcs_uris, k,
                   chunks, calls, objects, resources, log, exit_status, sinkvars, wirevars, obsvars, searchvars>>

CreateCorpus ==
    /\ pc = "create_corpus"
    /\ log' = Append(log, <<"INFO", "Creating corpus...">>)
    /\ StartRequest("create_corpus", BASE \o <<"corpora">>, CORPUS_SETTINGS)
    /\ pc' = "corpus_wait"
    /\ UNCHANGED <<args, batch_size, tree, today, token,
                   corpus_response, corpus_id, index_response, index_id,
                   endpoint_response, endpoint_id, image_files, i, batch, gcs_uris, k,
                   chunks, objects, resources, exit_status, sinkvars, obsvars, searchvars>>

\* corpus_id = corpus_response["response"]["name"].split("/")[-1]
CorpusReturn ==
    /\ pc = "corpus_wait" /\ req.status = "ok"
    /\ req' = Returned(req)
    /\ corpus_response' = req.response
    /\ IF req.response.has_name
       THEN corpus_id' = ExtractId(req.response) /\ pc' = "process_images"
       ELSE corpus_id' = corpus_id /\ pc' = "except"
    /\ UNCHANGED <<args, batch_size, tree, today, token, attempts,
                   index_response, index_id,
                   endpoint_response, endpoint_id, image_files, i, batch, gcs_uris, k,
                   chunks, calls, objects, resources, log, exit_status, sinkvars, wirevars, obsvars, searchvars>>

\* process_images up to the batch loop: the walk builds image_files
EnumerateImages ==
    /\ pc = "process_images"
    /\ log' = log \o << <<"INFO", "Processing images...">>,
                        <<"INFO", "Starting image processing...">> >>
    /\ image_files' = Enumerate(tree)
    /\ i' = 0
    /\ pc' = "batch_loop"
    /\ UNCHANGED <<args, batch_size, tree, today, token, req, attempts,
                   corpus_response, corpus_id, index_response, index_id,
                   endpoint_response, endpoint_id, batch, gcs_uris, k,
                   chunks, calls, objects, resources, exit_status, sinkvars, wirevars, obsvars, searchvars>>

\* BatchLoop entering its body once more when the offset has reached the end
BatchLoop_OnceMore ==
    /\ pc = "batch_loop"
    /\ IF i <= Len(image_files)
       THEN /\ batch' = BatchAt(image_files, i, batch_size)
            /\ chunks' = Append(chunks, BatchAt(image_files, i, batch_size))
            /\ gcs_uris' = <<>>
            /\ pc' = "upload"
       ELSE /\ pc' = "create_index"
            /\ UNCHANGED <<batch, chunks, gcs_uris>>
    /\ UNCHANGED <<args, batch_size, tree, today, token, req, attempts,
                   corpus_response, corpus_id, index_response, index_id,
                   endpoint_response, endpoint_id, image_files, i, k,
                   calls, objects, resources, log, exit_status, sinkvars, wirevars, obsvars, searchvars>>

\* for i in range(0, len(image_files), BATCH_SIZE): the next batch, or the loop's end
BatchLoop ==
    /\ pc = "batch_loop"
    /\ IF i < Len(image_files)
       THEN /\ batch' = BatchAt(image_files, i, batch_size)
            /\ chunks' = Append(chunks, BatchAt(image_files, i, batch_size))
            /\ gcs_uris' = <<>>
            /\ pc' = "upload"
       ELSE /\ pc' = "create_index"
            /\ UNCHANGED <<batch, chunks, gcs_uris>>
    /\ UNCHANGED <<args, batch_size, tree, today, token, req, attempts,
                   corpus_response, corpus_id, index_response, index_id,
                   endpoint_response, endpoint_id, image_files, i, k,
                   calls, objects, resources, log, exit_status, sinkvars, wirevars, obsvars, searchvars>>

\* Upload leaving the upload pass after the first file of the batch
Upload_FirstOnly ==
    /\ pc = "upload"
    /\ IF Len(gcs_uris) < 1
       THEN \E day \in Now(today), ok \in BOOLEAN :
              LET image_path == batch[Len(gcs_uris) + 1]
                  uri == GcsUri(args.bucket, DestinationBlob(day, image_path))
              IN  /\ today' = day
                  /\ calls' = Append(calls, [op |-> "upload", endpoint |-> uri,
                                             data |-> image_path,
                                             status |-> IF ok THEN "ok" ELSE "failed"])
                  /\ IF ok
                     THEN /\ objects' = Store(objects, uri, image_path)
                          /\ gcs_uris' = Append(gcs_uris, uri)
                          /\ UNCHANGED <<pc, k>>
                     ELSE /\ pc' = "except"
                          /\ UNCHANGED <<objects, gcs_uris, k>>
       ELSE /\ pc' = "register"
            /\ k' = 1
            /\ UNCHANGED <<objects, gcs_uris, calls, today>>
    /\ UNCHANGED <<args, batch_size, tree, token, req, attempts,
                   corpus_response, corpus_id, index_response, index_id,
                   endpoint_response, endpoint_id, image_files, i, batch,
                   chunks, resources, log, exit_status, sinkvars, wirevars, obsvars, searchvars>>

\* Upload swallowing a failed upload: the batch goes on to its registrations
Upload_GoOn ==
    /\ pc = "upload"
    /\ IF Len(gcs_uris) < Len(batch)
       THEN \E day \in Now(today), ok \in BOOLEAN :
              LET image_path == batch[Len(gcs_uris) + 1]
                  uri == GcsUri(args.bucket, DestinationBlob(day, image_path))
              IN  /\ today' = day
                  /\ calls' = Append(calls, [op |-> "upload", endpoint |-> uri,
                                             data |-> image_path,
                                             status |-> IF ok THEN "ok" ELSE "failed"])
                  /\ IF ok
                     THEN /\ objects' = Store(objects, uri, image_path)
                          /\ gcs_uris' = Append(gcs_uris, uri)
                          /\ UNCHANGED <<pc, k>>
                     ELSE /\ pc' = "register"
                          /\ UNCHANGED <<objects, gcs_uris, k>>
       ELSE /\ pc' = "register"
            /\ k' = 1
            /\ UNCHANGED <<objects, gcs_uris, calls, today>>
    /\ UNCHANGED <<args, batch_size, tree, token, req, attempts,
                   corpus_response, corpus_id, index_response, index_id,
                   endpoint_response, endpoint_id, image_files, i, batch,
                   chunks, resources, log, exit_status, sinkvars, wirevars, obsvars, searchvars>>

\* for image_path in batch: upload_to_gcs(...) returns the URI or raises
Upload ==
    /\ pc = "upload"
    /\ IF Len(gcs_uris) < Len(batch)
       THEN \E day \in Now(today), ok \in BOOLEAN :
              LET image_path == batch[Len(gcs_uris) + 1]
                  uri == GcsUri(args.bucket, DestinationBlob(day, image_path))
              IN  /\ today' = day
                  /\ calls' = Append(calls, [op |-> "upload", endpoint |-> uri,
                                             data |-> image_path,
                                             status |-> IF ok THEN "ok" ELSE "failed"])
                  /\ IF ok
                     THEN /\ objects' = Store(objects, uri, image_path)
                          /\ gcs_uris' = Append(gcs_uris, uri)
                          /\ UNCHANGED <<pc, k>>
                     ELSE /\ pc' = "except"
                          /\ UNCHANGED <<objects, gcs_uris, k>>
       ELSE /\ pc' = "register"
            /\ k' = 1
            /\ UNCHANGED <<objects, gcs_uris, calls, today>>
    /\ UNCHANGED <<args, batch_size, tree, token, req, attempts,
                   corpus_response, corpus_id, index_response, index_id,
                   endpoint_response, endpoint_id, image_files, i, batch,
                   chunks, resources, log, exit_status, sinkvars, wirevars, obsvars, searchvars>>

\* for gcs_uri in gcs_uris: self.create_asset(corpus_id, gcs_uri); then the next batch
Register ==
    /\ pc = "register"
    /\ IF k <= Len(gcs_uris)
       THEN /\ StartRequest("create_asset",
                            BASE \o <<"corpora", "/">> \o corpus_id \o <<"/", "assets">>,
                            AssetData(gcs_uris[k]))
            /\ pc' = "asset_wait"
            /\ i' = i
       ELSE /\ i' = NextOffset(i, batch_size)
            /\ pc' = "batch_loop"
            /\ UNCHANGED <<req, attempts, calls, wirevars>>
    /\ UNCHANGED <<args, batch_size, tree, today, token,
                   corpus_response, corpus_id, index_response, index_id,
                   endpoint_response, endpoint_id, image_files, batch, gcs_uris, k,
                   chunks, objects, resources, log, exit_status, sinkvars, obsvars, searchvars>>

AssetReturn ==
    /\ pc = "asset_wait" /\ req.status = "ok"
    /\ req' = Returned(req)
    /\ k' = k + 1
    /\ pc' = "register"
    /\ UNCHANGED <<args, batch_size, tree, today, token, attempts,
                   corpus_response, corpus_id, index_response, index_id,
                   endpoint_response, endpoint_id, image_files, i, batch, gcs_uris,
                   chunks, calls, objects, resources, log, exit_status, sinkvars, wirevars, obsvars, searchvars>>

\* create_index's endpoint
IndexEndpoint(cid) == BASE \o <<"corpora", "/">> \o cid \o <<"/", "indexes">>

CreateIndex ==
    /\ pc = "create_index"
    /\ log' = Append(log, <<"INFO", "Creating index...">>)
    /\ StartRequest("create_index", IndexEndpoint(corpus_id), INDEX_SETTINGS)
    /\ pc' = "index_wait"
    /\ UNCHANGED <<args, batch_size, tree, today, token,
                   corpus_response, corpus_id, index_response, index_id,
                   endpoint_response, endpoint_id, image_files, i, batch, gcs_uris, k,
                   chunks, objects, resources, exit_status, sinkvars, obsvars, searchvars>>

\* index_id = index_response["response"]["name"].split("/")[-1]
IndexReturn ==
    /\ pc = "index_wait" /\ req.status = "ok"
    /\ req' = Returned(req)
    /\ index_response' = req.response
    /\ IF req.response.has_name
       THEN index_id' = ExtractId(req.response) /\ pc' = "create_endpoint"
       ELSE index_id' = index_id /\ pc' = "except"
    /\ UNCHANGED <<args, batch_size, tree, today, token, attempts,
                   corpus_response, corpus_id,
                   endpoint_response, endpoint_id, image_files, i, batch, gcs_uris, k,
                   chunks, calls, objects, resources, log, exit_status, sinkvars, wirevars, obsvars, searchvars>>

\* create_index_endpoint's request body
EndpointData(day) ==
    [display_name |-> <<"logo_similarity_endpoint_", DateStr(day)>>,
     description |-> "Endpoint for logo similarity search"]

CreateEndpoint ==
    /\ pc = "create_endpoint"
    /\ log' = Append(log, <<"INFO", "Creating index endpoint...">>)
    /\ \E day \in Now(today) :
         /\ today' = day
         /\ StartRequest("create_index_endpoint", BASE \o <<"indexEndpoints">>,
                         EndpointData(day))
    /\ pc' = "endpoint_wait"
    /\ UNCHANGED <<args, batch_size, tree, token,
                   corpus_response, corpus_id, index_response, index_id,
                   endpoint_response, endpoint_id, image_files, i, batch, gcs_uris, k,
                   chunks, objects, resources, exit_status, sinkvars, obsvars, searchvars>>

\* endpoint_id = endpoint_response["response"]["name"].split("/")[-1]
EndpointReturn ==
    /\ pc = "endpoint_wait" /\ req.status = "ok"
    /\ req' = Returned(req)
    /\ endpoint_response' = req.response
    /\ IF req.response.has_name
       THEN endpoint_id' = ExtractId(req.response) /\ pc' = "deploy_index"
       ELSE endpoint_id' = endpoint_id /\ pc' = "except"
    /\ UNCHANGED <<args, batch_size, tree, today, token, attempts,
                   corpus_response, corpus_id, index_response, index_id,
                   image_files, i, batch, gcs_uris, k,
                   chunks, calls, objects, resources, log, exit_status, sinkvars, wirevars, obsvars, searchvars>>

\* DeployData with the corpus and index identifiers exchanged
DeployData_Swapped(cid, iid) ==
    [deployedIndex |->
        [index |-> BASE \o <<"corpora", "/">> \o iid \o <<"/", "indexes", "/">> \o cid]]

\* deploy_index's endpoint and request body
DeployEndpoint(eid) == BASE \o <<"indexEndpoints", "/">> \o eid \o <<":deployIndex">>
DeployData(cid, iid) ==
    [deployedIndex |->
        [index |-> BASE \o <<"corpora", "/">> \o cid \o <<"/", "indexes", "/">> \o iid]]

\* analyzer.deploy_index(endpoint_id, corpus_id, index_id)
DeployIndex ==
    /\ pc = "deploy_index"
    /\ log' = Append(log, <<"INFO", "Deploying index...">>)
    /\ StartRequest("deploy_index", DeployEndpoint(endpoint_id), DeployData(corpus_id, index_id))
    /\ pc' = "deploy_wait"
    /\ UNCHANGED <<args, batch_size, tree, today, token,
                   corpus_response, corpus_id, index_response, index_id,
                   endpoint_response, endpoint_id, image_files, i, batch, gcs_uris, k,
                   chunks, objects, resources, exit_status, sinkvars, obsvars, searchvars>>

DeployReturn ==
    /\ pc = "deploy_wait" /\ req.status = "ok"
    /\ req' = Returned(req)
    /\ pc' = "finish"
    /\ UNCHANGED <<args, batch_size, tree, today, token, attempts,
                   corpus_response, corpus_id, index_response, index_id,
                   endpoint_response, endpoint_id, image_files, i, batch, gcs_uris, k,
                   chunks, calls, objects, resources, log, exit_status, sinkvars, wirevars, obsvars, searchvars>>

\* if args.spreadsheet_id: (log, pass); then the completion message and a normal return
Finish ==
    /\ pc = "finish"
    /\ log' = log \o
              ( IF args.spreadsheet_id # "None"
                THEN << <<"INFO", "Saving results to spreadsheet...">> >>
                ELSE <<>> ) \o
              << <<"INFO", "Processing completed successfully!">> >>
    /\ exit_status' = "zero"
    /\ pc' = "done"
    /\ UNCHANGED <<args, batch_size, tree, today, token, req, attempts,
                   corpus_response, corpus_id, index_response, index_id,
                   endpoint_response, endpoint_id, image_files, i, batch, gcs_uris, k,
                   chunks, calls, objects, resources, sinkvars, wirevars, obsvars, searchvars>>

\* an exception is on its way to main's handler
Raised == pc = "except" \/ (req.status = "raised" /\ pc # "aborted")

\* ErrorLine logging the failure twice (a traceback line and the message)
ErrorLine_Twice(l) == l \o << <<"ERROR", "Traceback">>, <<"ERROR", "An error occurred">> >>

\* logger.error(f"An error occurred: {e}")
ErrorLine(l) == Append(l, <<"ERROR", "An error occurred">>)

\* except Exception as e: logger.error(...); raise
Except ==
    /\ Raised
    /\ log' = ErrorLine(log)
    /\ exit_status' = "nonzero"
    /\ pc' = "aborted"
    /\ UNCHANGED <<args, batch_size, tree, today, token, req, attempts,
                   corpus_response, corpus_id, index_response, index_id,
                   endpoint_response, endpoint_id, image_files, i, batch, gcs_uris, k,
                   chunks, calls, objects, resources, sinkvars, wirevars, obsvars, searchvars>>

----------------------------------------------------------------------------
Next ==
    \/ Construct
    \/ CreateCorpus \/ CorpusReturn
    \/ EnumerateImages \/ BatchLoop \/ Upload \/ Register \/ AssetReturn
    \/ CreateIndex \/ IndexReturn
    \/ CreateEndpoint \/ EndpointReturn
    \/ DeployIndex \/ DeployReturn
    \/ Finish
    \/ Attempt
    \/ Except

Spec == Init /\ [][Next]_vars

\* what a run of day 1 that uploaded old/a.png has left in the bucket
EarlierRun ==
    { [uri |-> GcsUri(BUCKET, DestinationBlob(1, <<"old", "/", "a", ".", "p", "n", "g">>)),
       source |-> <<"old", "/", "a", ".", "p", "n", "g">>] }

\* a later run, without a spreadsheet: the bucket holds what the earlier run left
InitRerun == InitRun({"None"}, {1}, {EarlierRun}, {})

SpecRerun == InitRerun /\ [][Next]_vars

\* a run without a spreadsheet on the clock's last day, its attempts counted;
\* main is one thread that takes its next step whenever it has one, and every
\* remote call returns or fails
InitCount == InitRun({"None"}, {MaxDay}, {{}}, {"total"})

SpecCount == InitCount /\ [][Next]_vars /\ WF_vars(Next)

\* the run against a service whose answers may be lost after it has acted
NextLossy == Next \/ AttemptLost

SpecLossy == Init /\ [][NextLossy]_vars

----------------------------------------------------------------------------
(* search_similar_images *)

\* max_results=10 in the signature
DEFAULT_MAX_RESULTS == 10

\* the arguments search_similar_images is called with
SearchEndpointIds == { <<"e1">>, <<"e2">> }
QueryPaths == { <<"q", ".", "p", "n", "g">>, <<"d", "/", "q", ".", "p", "n", "g">>,
                <<"d", "/", "Z", ".", "J", "P", "G">> }

\* f"projects/{project_number}/locations/{location}/indexEndpoints/{id}:findNeighbors"
SearchEndpoint(index_endpoint_id) ==
    BASE \o <<"indexEndpoints", "/">> \o index_endpoint_id \o <<":findNeighbors">>

\* f"{self.project_number}-query-images"
QueryBucket(project_number) == <<project_number, "-query-images">>

\* f"query/{date}/{basename}"
QueryBlob(day, path) == <<"query", "/", DateStr(day), "/">> \o Basename(path)

\* the findNeighbors request body
SearchData(gcs_uri, max_results) ==
    [query_image |-> [gcs_uri |-> gcs_uri], max_results |-> max_results]

\* the analyzer is constructed and search_similar_images is called
InitSearch ==
    /\ search_in \in { [index_endpoint_id |-> e, query_image_path |-> q, max_results |-> m] :
                       e \in SearchEndpointIds, q \in QueryPaths,
                       m \in (1..MaxResults) \cup {DEFAULT_MAX_RESULTS} }
    /\ search_uri = <<>>
    /\ search_out = NoNameResponse
    /\ pc = "search"
    /\ token = TOKEN
    /\ observe = {"kinds"}
    /\ args = [image_dir |-> IMAGE_DIR, bucket |-> BUCKET, spreadsheet_id |-> "None"]
    /\ batch_size = BATCH_SIZE
    /\ tree = <<>>
    /\ today = 1
    /\ req = NoRequest
    /\ attempts = 0
    /\ corpus_response = NoNameResponse /\ corpus_id = <<>>
    /\ index_response = NoNameResponse /\ index_id = <<>>
    /\ endpoint_response = NoNameResponse /\ endpoint_id = <<>>
    /\ image_files = <<>> /\ i = 0 /\ batch = <<>> /\ gcs_uris = <<>> /\ k = 1
    /\ chunks = <<>>
    /\ calls = <<>>
    /\ objects = {}
    /\ resources = <<>>
    /\ log = <<>>
    /\ exit_status = "running"
    /\ sink_in = NoSinkCall /\ sink_calls = <<>> /\ sink_pc = "idle"
    /\ sent = <<>> /\ last_failure = "none" /\ http_total = 0

\* gcs_uri = upload_to_gcs(bucket_name, query_image_path, destination_blob)
SearchUpload ==
    /\ pc = "search"
    /\ \E day \in Now(today), ok \in BOOLEAN :
         LET image_path == search_in.query_image_path
             uri == GcsUri(QueryBucket(PROJECT_NUMBER), QueryBlob(day, image_path))
         IN  /\ today' = day
             /\ calls' = Append(calls, [op |-> "upload", endpoint |-> uri,
                                        data |-> image_path,
                                        status |-> IF ok THEN "ok" ELSE "failed"])
             /\ IF ok
                THEN /\ objects' = Store(objects, uri, image_path)
                     /\ search_uri' = uri
                     /\ pc' = "find_neighbors"
                ELSE /\ pc' = "search_raised"
                     /\ UNCHANGED <<objects, search_uri>>
    /\ UNCHANGED <<args, batch_size, tree, token, req, attempts,
                   corpus_response, corpus_id, index_response, index_id,
                   endpoint_response, endpoint_id, image_files, i, batch, gcs_uris, k,
                   chunks, resources, log, exit_status, sinkvars, wirevars, obsvars,
                   search_in, search_out>>

\* self._make_request("POST", endpoint, data) is entered
FindNeighbors ==
    /\ pc = "find_neighbors"
    /\ StartRequest("find_neighbors", SearchEndpoint(search_in.index_endpoint_id),
                    SearchData(search_uri, search_in.max_results))
    /\ pc' = "search_wait"
    /\ UNCHANGED <<args, batch_size, tree, today, token,
                   corpus_response, corpus_id, index_response, index_id,
                   endpoint_response, endpoint_id, image_files, i, batch, gcs_uris, k,
                   chunks, objects, resources, log, exit_status, sinkvars, obsvars,
                   searchvars>>

\* SearchResult keeping the first neighbour only
SearchResult_First(response) ==
    [response EXCEPT !.neighbors = IF @ = <<>> THEN <<>> ELSE <<@[1]>>]

\* return self._make_request(...): the parsed body is handed on as it is
SearchResult(response) == response

SearchReturn ==
    /\ pc = "search_wait"
    /\ req.status = "ok"
    /\ search_out' = SearchResult(req.response)
    /\ req' = Returned(req)
    /\ pc' = "search_done"
    /\ UNCHANGED <<args, batch_size, tree, today, token, attempts,
                   corpus_response, corpus_id, index_response, index_id,
                   endpoint_response, endpoint_id, image_files, i, batch, gcs_uris, k,
                   chunks, calls, objects, resources, log, exit_status, sinkvars,
                   wirevars, obsvars, search_in, search_uri>>

\* the gateway's terminal error leaves search_similar_images
SearchRaise ==
    /\ pc = "search_wait"
    /\ req.status = "raised"
    /\ pc' = "search_raised"
    /\ UNCHANGED <<args, batch_size, tree, today, token, req, attempts,
                   corpus_response, corpus_id, index_response, index_id,
                   endpoint_response, endpoint_id, image_files, i, batch, gcs_uris, k,
                   chunks, calls, objects, resources, log, exit_status, sinkvars,
                   wirevars, obsvars, searchvars>>

NextSearch ==
    \/ SearchUpload
    \/ FindNeighbors
    \/ Attempt
    \/ SearchReturn
    \/ SearchRaise

SpecSearch == InitSearch /\ [][NextSearch]_vars

----------------------------------------------------------------------------
(* Helpers of the properties *)

Range(seq) == { seq[n] : n \in 1..Len(seq) }

\* the positions of the calls of one operation in the call history
CallsOf(op) == { n \in 1..Len(calls) : calls[n].op = op }

Logged(line) == \E n \in 1..Len(log) : log[n] = line

----------------------------------------------------------------------------
\* the attempts sent for the current call, by its status
C1_AttemptCount ==
    /\ req.status = "pending" => attempts = req.retry_count /\ attempts <= MAX_RETRIES
    /\ req.status = "raised" => attempts = MAX_RETRIES + 1
    /\ req.status \in {"ok", "returned"} => attempts \in 1..(MAX_RETRIES + 1)

(* C1: a gateway call that keeps failing is attempted exactly MAX_RETRIES + 1
   times and then raises; a call that succeeds on attempt k <= MAX_RETRIES + 1
   returns that attempt's parsed response, and no attempt follows its end. *)
C1_RetryBound ==
    /\ []C1_AttemptCount
    /\ [][ /\ (req.status \in {"ok", "raised", "returned"} /\ calls' = calls)
                => attempts' = attempts
           /\ (req.status = "ok" /\ req'.status = "returned" /\ req.op = "create_corpus")
                => corpus_response' = req.response
           /\ (req.status = "ok" /\ req'.status = "returned" /\ req.op = "create_index")
                => index_response' = req.response
           /\ (req.status = "ok" /\ req'.status = "returned" /\ req.op = "create_index_endpoint")
                => endpoint_response' = req.response ]_vars

\* a call has failed on every attempt and raised
C1_Witness == req.status = "raised" /\ attempts = MAX_RETRIES + 1 /\ req.op = "create_asset"

----------------------------------------------------------------------------
(* C2: every asset registration carries the URI that an earlier, successful
   upload of the corresponding file returned (the r-th registration goes with
   the r-th enumerated file), and that URI holds an object. *)
C2_UploadBeforeRegister ==
    \A n \in CallsOf("create_asset") :
        LET r == Cardinality({ m \in CallsOf("create_asset") : m <= n })
        IN  /\ r <= Len(image_files)
            /\ \E m \in CallsOf("upload") :
                 /\ m < n
                 /\ calls[m].status = "ok"
                 /\ calls[m].data = image_files[r]
                 /\ calls[m].endpoint = calls[n].data.gcs_uri
            /\ \E o \in objects : o.uri = calls[n].data.gcs_uri

\* an asset of the second batch has been registered
C2_Witness ==
    /\ Len(chunks) = 2
    /\ \E n \in CallsOf("create_asset") :
         /\ calls[n].status = "ok"
         /\ Cardinality({ m \in CallsOf("create_asset") : m <= n }) > Len(chunks[1])

----------------------------------------------------------------------------
RECURSIVE Concat(_)
Concat(seqs) == IF seqs = <<>> THEN <<>> ELSE Head(seqs) \o Concat(Tail(seqs))

CeilDiv(n, b) == (n + b - 1) \div b

ProcessImagesReturned == Logged(<<"INFO", "Creating index...">>)

(* C3: the batch loop cuts the N enumerated files into contiguous chunks in
   list order, each of the batch size B but possibly the last, which has
   N mod B files (B when N mod B = 0); when process_images has returned there
   are ceil(N/B) chunks and they concatenate to the list.  With the
   configured batch size, 250 files are cut into batches of 100, 100 and 50. *)
C3_Batching ==
    LET N == Len(image_files)
        B == batch_size
    IN  /\ \A c \in 1..Len(chunks) :
             /\ c <= CeilDiv(N, B)
             /\ Len(chunks[c]) = IF c < CeilDiv(N, B) THEN B
                                 ELSE IF N % B = 0 THEN B ELSE N % B
             /\ \A n \in 1..Len(chunks[c]) : chunks[c][n] = image_files[(c - 1) * B + n]
        /\ ProcessImagesReturned =>
             /\ Len(chunks) = CeilDiv(N, B)
             /\ Concat(chunks) = image_files
             /\ chunks = BatchesFrom(image_files, 0, B)
        /\ pc = "start" =>
             LET ex == BatchesFrom([n \in 1..250 |-> n], 0, BATCH_SIZE)
             IN  /\ Len(ex) = 3
                 /\ Len(ex[1]) = 100 /\ Len(ex[2]) = 100 /\ Len(ex[3]) = 50
                 /\ Concat(ex) = [n \in 1..250 |-> n]

\* three files were cut into a full batch of two and a last batch of one
C3_Witness ==
    /\ ProcessImagesReturned
    /\ batch_size = 2
    /\ Len(image_files) = 3
    /\ Len(chunks) = 2 /\ Len(chunks[1]) = 2 /\ Len(chunks[2]) = 1

----------------------------------------------------------------------------
(* The final segment of a slash-separated path, stated without split: the
   suffix that holds no slash and is the whole path or follows a slash. *)
IsFinalSegment(seg, path) ==
    /\ Len(seg) <= Len(path)
    /\ SubSeq(path, Len(path) - Len(seg) + 1, Len(path)) = seg
    /\ \A n \in 1..Len(seg) : seg[n] # "/"
    /\ Len(seg) = Len(path) \/ path[Len(path) - Len(seg)] = "/"

FinalSegment(path) ==
    CHOOSE seg \in { SubSeq(path, n, Len(path)) : n \in 1..(Len(path) + 1) } :
        IsFinalSegment(seg, path)

StageRank(op) ==
    CASE op = "create_corpus" -> 1
      [] op = "upload" -> 2
      [] op = "create_asset" -> 2
      [] op = "create_index" -> 3
      [] op = "create_index_endpoint" -> 4
      [] op = "deploy_index" -> 5
      [] OTHER -> 6

CorpusSeg == FinalSegment(corpus_response.name)
IndexSeg == FinalSegment(index_response.name)
EndpointSeg == FinalSegment(endpoint_response.name)

(* C4: the remote calls come in the order create corpus, uploads and asset
   registrations, create index, create index endpoint, deploy index; a call
   is issued only when every earlier call has returned successfully; and the
   corpus, index and endpoint identifiers in later calls are the final
   segments of the names in the creation responses. *)
C4_StageOrder ==
    /\ \A n \in 1..Len(calls) :
         /\ StageRank(calls[n].op) <= 5
         /\ n < Len(calls) =>
              /\ calls[n].status = "ok"
              /\ StageRank(calls[n].op) <= StageRank(calls[n + 1].op)
         /\ StageRank(calls[n].op) # 2 => Cardinality(CallsOf(calls[n].op)) = 1
         /\ (n = 1) <=> (calls[n].op = "create_corpus")
         /\ calls[n].op = "create_asset" =>
              /\ corpus_response.has_name
              /\ calls[n].endpoint =
                   BASE \o <<"corpora", "/">> \o CorpusSeg \o <<"/", "assets">>
         /\ calls[n].op = "create_index" =>
              /\ corpus_response.has_name
              /\ calls[n].endpoint =
                   BASE \o <<"corpora", "/">> \o CorpusSeg \o <<"/", "indexes">>
              /\ Cardinality(CallsOf("upload")) = Len(image_files)
              /\ Cardinality(CallsOf("create_asset")) = Len(image_files)
         /\ calls[n].op = "create_index_endpoint" =>
              /\ calls[n - 1].op = "create_index"
              /\ index_response.has_name
         /\ calls[n].op = "deploy_index" =>
              /\ calls[n - 1].op = "create_index_endpoint"
              /\ endpoint_response.has_name
              /\ calls[n].endpoint =
                   BASE \o <<"indexEndpoints", "/">> \o EndpointSeg \o <<":deployIndex">>
              /\ calls[n].data.deployedIndex.index =
                   BASE \o <<"corpora", "/">> \o CorpusSeg
                        \o <<"/", "indexes", "/">> \o IndexSeg

\* a run went through all five stages with two images
C4_Witness ==
    /\ pc = "done"
    /\ Len(image_files) = 2
    /\ CallsOf("deploy_index") # {}
    /\ CorpusSeg # IndexSeg

----------------------------------------------------------------------------
Failed ==
    \/ pc \in {"except", "aborted"}
    \/ \E n \in 1..Len(calls) : calls[n].status = "failed"

(* C5: once a remote call has failed terminally, or an exception is on its
   way to main's handler, no further remote call is issued and nothing held
   remotely changes; and at no step is anything held remotely removed. *)
C5_AbortNoCleanup ==
    [][ /\ Failed => /\ calls' = calls
                     /\ objects' = objects
                     /\ resources' = resources
                     /\ pc' \in {pc, "aborted"}
        /\ Len(resources) <= Len(resources')
        /\ SubSeq(resources', 1, Len(resources)) = resources
        /\ \A o \in objects : \E o2 \in objects' : o2.uri = o.uri ]_vars

\* a run was aborted with a corpus, an uploaded object and an asset left behind
C5_Witness ==
    /\ pc = "aborted"
    /\ objects # {}
    /\ \E n \in 1..Len(resources) : resources[n].op = "create_asset"
    /\ calls[Len(calls)].status = "failed"

----------------------------------------------------------------------------
(* C6: a run that reaches DONE with a spreadsheet id has searched the deployed
   index and written the results through the result sink; without a
   spreadsheet id it has issued neither call. *)
C6_SearchAndSave ==
    pc = "done" =>
        IF args.spreadsheet_id # "None"
        THEN /\ \E n \in 1..Len(calls) : calls[n].op = "search_similar_images"
             /\ sink_calls # <<>>
        ELSE /\ \A n \in 1..Len(calls) : calls[n].op # "search_similar_images"
             /\ sink_calls = <<>>

----------------------------------------------------------------------------
CompletionLine == <<"INFO", "Processing completed successfully!">>
ErrorLines == { n \in 1..Len(log) : log[n][1] = "ERROR" }

\* every stage has succeeded: the token, every call, the three identifiers
AllStagesSucceeded ==
    /\ token # ""
    /\ \A n \in 1..Len(calls) : calls[n].status = "ok"
    /\ CallsOf("deploy_index") # {}
    /\ corpus_response.has_name /\ index_response.has_name /\ endpoint_response.has_name
    /\ req.status = "returned"

(* C7: the completion message is logged exactly when every stage succeeded,
   and the run then ends with status zero; a run in which a stage failed logs
   exactly one error line and ends with a failure status; never both. *)
C7_ExitBehaviour ==
    /\ Logged(CompletionLine) <=> pc = "done"
    /\ pc = "done" => /\ AllStagesSucceeded
                      /\ exit_status = "zero"
                      /\ ErrorLines = {}
    /\ (pc \notin {"done", "aborted"} /\ ~Raised) => exit_status = "running"
    /\ Raised => ~AllStagesSucceeded /\ ErrorLines = {} /\ exit_status = "running"
    /\ pc = "aborted" => /\ Cardinality(ErrorLines) = 1
                         /\ log[Len(log)][1] = "ERROR"
                         /\ exit_status = "nonzero"
                         /\ ~Logged(CompletionLine)
                         /\ ~AllStagesSucceeded
    /\ Cardinality(ErrorLines) <= 1
    /\ (ErrorLines # {}) <=> pc = "aborted"

\* a run failed in its last stage and was aborted with one error line
C7_Witness ==
    /\ pc = "aborted"
    /\ CallsOf("deploy_index") # {}
    /\ Cardinality(ErrorLines) = 1

----------------------------------------------------------------------------
AllowedSuffixes ==
    { <<".", "j", "p", "g">>, <<".", "j", "p", "e", "g">>, <<".", "p", "n", "g">> }

HasAllowedSuffix(name) ==
    \E suffix \in AllowedSuffixes :
        /\ Len(name) >= Len(suffix)
        /\ \A n \in 1..Len(suffix) :
             LowerChar(name[Len(name) - Len(suffix) + n]) = suffix[n]

Enumerated == Logged(<<"INFO", "Starting image processing...">>)

(* C8: a file of the walked tree is enumerated exactly when its name,
   lower-cased, ends with ".jpg", ".jpeg" or ".png"; only such files are
   uploaded or registered. *)
C8_Enumeration ==
    /\ Enumerated =>
         /\ \A e \in 1..Len(tree) : \A f \in 1..Len(tree[e].files) :
              (PathJoin(tree[e].root, tree[e].files[f]) \in Range(image_files))
                 <=> HasAllowedSuffix(tree[e].files[f])
         /\ \A n \in 1..Len(image_files) :
              \E e \in 1..Len(tree) : \E f \in 1..Len(tree[e].files) :
                 image_files[n] = PathJoin(tree[e].root, tree[e].files[f])
    /\ \A n \in CallsOf("upload") :
         /\ HasAllowedSuffix(calls[n].endpoint)
         /\ HasAllowedSuffix(calls[n].data)
    /\ \A n \in CallsOf("create_asset") : HasAllowedSuffix(calls[n].data.gcs_uri)

\* an upper-case .JPG was enumerated and uploaded while a .gif was left out
C8_Witness ==
    /\ Enumerated
    /\ \E e \in 1..Len(tree) : <<"c", ".", "g", "i", "f">> \in Range(tree[e].files)
    /\ \E n \in CallsOf("upload") : Basename(calls[n].data) = <<"B", ".", "J", "P", "G">>

----------------------------------------------------------------------------
(* C9: the identifier extracted from a creation response is the final
   segment of response.name, by the same rule for the corpus, the index and
   the index endpoint. *)
C9_IdExtraction ==
    /\ corpus_response.has_name => IsFinalSegment(corpus_id, corpus_response.name)
    /\ index_response.has_name => IsFinalSegment(index_id, index_response.name)
    /\ endpoint_response.has_name => IsFinalSegment(endpoint_id, endpoint_response.name)

\* the three identifiers were taken from paths of several segments
C9_Witness ==
    /\ corpus_response.has_name /\ corpus_id = <<"c1">>
    /\ index_response.has_name /\ index_id = <<"i1">>
    /\ endpoint_response.has_name /\ endpoint_id = <<"e1">>

----------------------------------------------------------------------------
SameFields(rows) ==
    \A r \in 1..Len(rows) :
        /\ Len(rows[r]) = Len(rows[1])
        /\ Range(Fields(rows[r])) = Range(Fields(rows[1]))

(* C10: for a non-empty list of rows with the same fields, the sink issues
   exactly one update call on the given spreadsheet id and range; its first
   row is the fields in the first row's order, the next rows are the records'
   values in that field order and in input order; a failing call is not
   retried and raises. *)
C10_SinkOverwrite ==
    LET rows == sink_in.results
    IN  (sink_pc \in {"returned", "raised"} /\ rows # <<>> /\ SameFields(rows)) =>
          /\ Len(sink_calls) = 1
          /\ sink_calls[1].method = "update"
          /\ sink_calls[1].spreadsheetId = sink_in.spreadsheet_id
          /\ sink_calls[1].range = sink_in.range_name
          /\ Len(sink_calls[1].values) = Len(rows) + 1
          /\ sink_calls[1].values[1] = Fields(rows[1])
          /\ \A r \in 1..Len(rows) :
               /\ Len(sink_calls[1].values[r + 1]) = Len(rows[1])
               /\ \A c \in 1..Len(rows[1]) :
                    \E n \in 1..Len(rows[r]) :
                       /\ rows[r][n][1] = rows[1][c][1]
                       /\ sink_calls[1].values[r + 1][c] = rows[r][n][2]
          /\ (sink_pc = "raised") <=> (sink_calls[1].status = "failed")

\* two rows with the same fields in different orders were written
C10_Witness ==
    /\ sink_pc = "returned"
    /\ Len(sink_in.results) = 2
    /\ SameFields(sink_in.results)
    /\ Fields(sink_in.results[1]) # Fields(sink_in.results[2])
    /\ sink_in.range_name = "Sheet1!A1"

----------------------------------------------------------------------------
(* search_similar_images, under SpecSearch *)

\* the URI the query image of this call is stored under when uploaded on day d
QueryUri(d) ==
    <<"gs:", "/", "/", PROJECT_NUMBER, "-query-images", "/", "query", "/", DateStr(d), "/">>
        \o LastOf(Split(search_in.query_image_path))

FindNeighborsUrl ==
    <<"projects", "/", PROJECT_NUMBER, "/", "locations", "/", LOCATION, "/",
      "indexEndpoints", "/">> \o search_in.index_endpoint_id \o <<":findNeighbors">>

C11_Calls ==
    /\ Len(calls) <= 2
    /\ Len(calls) >= 1 =>
          /\ calls[1].op = "upload"
          /\ calls[1].data = search_in.query_image_path
          /\ \E d \in 1..MaxDay : calls[1].endpoint = QueryUri(d)
          /\ calls[1].status = "ok" =>
                \E o \in objects : o.uri = calls[1].endpoint
    /\ Len(calls) = 2 =>
          /\ calls[1].status = "ok"
          /\ calls[2].op = "find_neighbors"
          /\ calls[2].endpoint = FindNeighborsUrl
          /\ calls[2].data = [query_image |-> [gcs_uri |-> calls[1].endpoint],
                              max_results |-> search_in.max_results]
    /\ pc = "search_done" => Len(calls) = 2 /\ calls[2].status = "ok"

\* C11: search_similar_images uploads the query image exactly once, to the bucket
\* "<project number>-query-images" under query/<date>/<base name>; only after a
\* successful upload it issues one findNeighbors request, whose body carries the
\* URI the upload returned and max_results; and what it returns is the parsed
\* response of the successful attempt, unchanged.
C11_SearchFlow ==
    /\ []C11_Calls
    /\ [][pc' = "search_done" /\ pc # "search_done" =>
             /\ req.status = "ok"
             /\ search_out' = req.response]_vars

C11_Witness ==
    /\ pc = "search_done"
    /\ Len(search_out.neighbors) = 2
    /\ search_out.neighbors[1].score = "0.90"
    /\ Len(search_in.query_image_path) > 5
    /\ attempts > 1

----------------------------------------------------------------------------
(* process_images, under SpecRerun *)

Min(a, b) == IF a <= b THEN a ELSE b

\* the rank of call n among the calls of its operation
RankOf(n) == Cardinality({ m \in CallsOf(calls[n].op) : m <= n })

\* successful calls of op issued before call n
OkBefore(op, n) == Cardinality({ m \in CallsOf(op) : m < n /\ calls[m].status = "ok" })

\* calls of op issued before call n
IssuedBefore(op, n) == Cardinality({ m \in CallsOf(op) : m < n })

\* C12: within each chunk all uploads complete before the first registration of
\* that chunk (when the j-th file overall is registered, exactly the files of
\* its chunk and of the chunks before it have been uploaded), the registrations
\* of chunk c all precede the first upload of chunk c+1 (when a file of chunk c
\* is uploaded, exactly the files of the chunks before c have been registered),
\* and only the last call issued can be in flight.
C12_TwoPasses ==
    \A n \in 1..Len(calls) :
        /\ calls[n].op = "create_asset" =>
              OkBefore("upload", n) =
                  Min(CeilDiv(RankOf(n), batch_size) * batch_size, Len(image_files))
        /\ calls[n].op = "upload" =>
              /\ OkBefore("create_asset", n) = (CeilDiv(RankOf(n), batch_size) - 1) * batch_size
              /\ IssuedBefore("create_asset", n) = OkBefore("create_asset", n)
              /\ IssuedBefore("upload", n) = OkBefore("upload", n)
        /\ calls[n].status = "pending" => n = Len(calls)

\* three files in batches of two: the third is uploaded after two registrations
C12_Witness ==
    /\ batch_size = 2
    /\ Len(image_files) = 3
    /\ Cardinality(CallsOf("upload")) = 3
    /\ Cardinality(CallsOf("create_asset")) = 3
    /\ req.status = "pending"

----------------------------------------------------------------------------
(* the service's resources, under SpecLossy *)

\* what the service created for requests of op
Created(op) == { n \in 1..Len(resources) : resources[n].op = op }

\* C13: whatever the failures and retries, a timeout after the service has
\* committed the request included, the service holds at most one corpus, one
\* index and one index endpoint per run, and for every URI at most as many
\* assets as files were uploaded to it.
C13_CreatedOnce ==
    /\ Cardinality(Created("create_corpus")) <= 1
    /\ Cardinality(Created("create_index")) <= 1
    /\ Cardinality(Created("create_index_endpoint")) <= 1
    /\ \A a \in Created("create_asset") :
          Cardinality({ b \in Created("create_asset") :
                          resources[b].data.gcs_uri = resources[a].data.gcs_uri })
            <= Cardinality({ m \in CallsOf("upload") :
                               /\ calls[m].status = "ok"
                               /\ calls[m].endpoint = resources[a].data.gcs_uri })

----------------------------------------------------------------------------
(* the gateway's attempts, under SpecSearch *)

\* the message the request in progress was entered with
FirstMessage ==
    [method |-> "POST",
     url |-> <<"https://warehouse-visionai.googleapis.com/v1", "/">>
                \o calls[Len(calls)].endpoint,
     authorization |-> <<"Bearer", TOKEN>>,
     json |-> calls[Len(calls)].data]

C14_Wire ==
    /\ Len(sent) = attempts
    /\ \A n \in 1..Len(sent) : sent[n] = FirstMessage
    /\ req.status = "pending" => attempts = req.retry_count
    /\ req.status = "raised" => attempts = MAX_RETRIES + 1

\* C14: every attempt of a request, retries included, carries the method,
\* endpoint and body the request was entered with and the analyzer's bearer
\* token, which never changes; and a failed attempt is handled the same way
\* whatever its kind (connection error, timeout, 4xx, 5xx): it uses up one unit
\* of the retry budget and the request is at once ready to be sent again, or,
\* with the budget used up, the call ends in the one terminal error.
C14_UniformRetry ==
    /\ []C14_Wire
    /\ [][/\ token' = token
          /\ attempts' = attempts + 1 /\ last_failure' \in Failures =>
                req' = IF req.retry_count < MAX_RETRIES
                       THEN [req EXCEPT !.retry_count = @ + 1]
                       ELSE [req EXCEPT !.status = "raised"]]_vars

\* a request whose four attempts failed, the last with a 4xx status
C14_Witness ==
    /\ req.status = "raised"
    /\ last_failure = "http_4xx"
    /\ Len(sent) = MAX_RETRIES + 1

----------------------------------------------------------------------------
\* C15: an upload that fails is attempted once only and ends the run (it is the
\* last call issued, and main is in or past its handler), and when obtaining the
\* token fails no remote call is ever issued: no API request, no upload, the
\* bucket and the service hold what they held before.
C15_NoRetryOutsideGateway ==
    /\ \A n \in CallsOf("upload") :
          calls[n].status = "failed" =>
            /\ n = Len(calls)
            /\ pc \in {"except", "aborted"}
            /\ Cardinality({ m \in CallsOf("upload") : calls[m].data = calls[n].data }) = 1
    /\ token = "" =>
          /\ calls = <<>>
          /\ objects = EarlierRun
          /\ resources = <<>>
          /\ pc \in {"start", "except", "aborted"}

\* the second upload of a run failed and the run has ended
C15_Witness ==
    /\ pc = "aborted"
    /\ Cardinality(CallsOf("upload")) = 2
    /\ calls[Len(calls)].op = "upload"
    /\ calls[Len(calls)].status = "failed"

----------------------------------------------------------------------------
\* the URI of the object named by a base name and a day, under logos/
LogoUri(d, base) == <<"gs:", "/", "/">> \o args.bucket \o <<"/", "logos", "/", DateStr(d), "/">> \o base

\* the successful uploads to a URI, as positions of the call history
UploadsTo(uri) ==
    { n \in CallsOf("upload") : calls[n].status = "ok" /\ calls[n].endpoint = uri }

\* C16: the object an upload is written to depends on the file's base name and
\* on the date only, under the fixed prefix logos/: whatever the directory, the
\* target is logos/<date>/<base name>.  So uploads with the same base name on
\* the same date, of an earlier run or of this one, hit one object: the bucket
\* holds one object per URI, and it is the file uploaded there last.
C16_ObjectPath ==
    /\ \A n \in CallsOf("upload") :
          \E d \in 1..MaxDay : calls[n].endpoint = LogoUri(d, LastOf(Split(calls[n].data)))
    /\ \A o \in objects :
          /\ \A p \in objects : p.uri = o.uri => p = o
          /\ IF UploadsTo(o.uri) = {}
             THEN o \in EarlierRun
             ELSE \E n \in UploadsTo(o.uri) :
                    /\ \A m \in UploadsTo(o.uri) : m <= n
                    /\ o.source = calls[n].data

\* r/a.png and r/s/a.png were uploaded on day 1, where the earlier run had left
\* a.png: one object, holding r/s/a.png
C16_Witness ==
    /\ Cardinality(objects) = 1
    /\ \E o \in objects :
         /\ o.source = <<"r", "/", "s", "/", "a", ".", "p", "n", "g">>
         /\ Cardinality(UploadsTo(o.uri)) = 2
         /\ o.uri = LogoUri(1, <<"a", ".", "p", "n", "g">>)

----------------------------------------------------------------------------
\* the r-th call of op
NthCall(op, r) == CHOOSE n \in CallsOf(op) : RankOf(n) = r

\* C17: when process_images has returned normally for N enumerated files, N
\* uploads and N registrations have been made, all successful, the r-th of each
\* for the r-th enumerated file, the registration carrying the URI its upload
\* returned; when two files collide on a URI, two assets carry that URI and the
\* bucket holds one object there.
C17_AllProcessed ==
    ProcessImagesReturned =>
        /\ Cardinality(CallsOf("upload")) = Len(image_files)
        /\ Cardinality(CallsOf("create_asset")) = Len(image_files)
        /\ \A r \in 1..Len(image_files) :
              LET u == calls[NthCall("upload", r)]
                  a == calls[NthCall("create_asset", r)]
              IN  /\ u.status = "ok"
                  /\ u.data = image_files[r]
                  /\ a.status = "ok"
                  /\ a.data.gcs_uri = u.endpoint
                  /\ NthCall("upload", r) < NthCall("create_asset", r)
        /\ \A r, q \in 1..Len(image_files) :
              LET uri == calls[NthCall("upload", r)].endpoint
              IN  r # q /\ calls[NthCall("upload", q)].endpoint = uri =>
                    /\ Cardinality({ o \in objects : o.uri = uri }) = 1
                    /\ Cardinality({ n \in CallsOf("create_asset") :
                                       calls[n].data.gcs_uri = uri }) >= 2

\* process_images returned for three files, two of them colliding on one URI
C17_Witness ==
    /\ ProcessImagesReturned
    /\ Len(image_files) = 3
    /\ Cardinality(objects) = 2
    /\ batch_size = 2

----------------------------------------------------------------------------
\* the files of the chunks before the one being processed
BeforeChunk == (Len(chunks) - 1) * batch_size

OkCalls(op) == { n \in CallsOf(op) : calls[n].status = "ok" }

\* C18: when an upload fails while chunk c is processed, the files of the
\* chunks before c are all uploaded and registered, no file of chunk c is
\* registered although those uploaded before the failure are in the bucket, and
\* no file past the failed one is uploaded.  When the registration of the j-th
\* file of chunk c fails terminally, all files of chunk c (and none of a later
\* chunk) are uploaded and, of chunk c, exactly the first j-1 are registered.
C18_PartialFailure ==
    \A n \in 1..Len(calls) :
        calls[n].status = "failed" /\ calls[n].op \in {"upload", "create_asset"} =>
          /\ n = Len(calls)
          /\ Len(chunks) >= 1
          /\ \A r \in 1..Cardinality(OkCalls("upload")) :
                /\ calls[NthCall("upload", r)].status = "ok"
                /\ calls[NthCall("upload", r)].data = image_files[r]
                /\ \E o \in objects : o.uri = calls[NthCall("upload", r)].endpoint
          /\ calls[n].op = "upload" =>
                /\ calls[n].data = image_files[Cardinality(OkCalls("upload")) + 1]
                /\ Cardinality(OkCalls("upload")) >= BeforeChunk
                /\ Cardinality(OkCalls("upload")) < BeforeChunk + Len(chunks[Len(chunks)])
                /\ Cardinality(CallsOf("create_asset")) = BeforeChunk
                /\ Cardinality(OkCalls("create_asset")) = BeforeChunk
          /\ calls[n].op = "create_asset" =>
                /\ Cardinality(CallsOf("upload")) = BeforeChunk + Len(chunks[Len(chunks)])
                /\ Cardinality(OkCalls("upload")) = BeforeChunk + Len(chunks[Len(chunks)])
                /\ RankOf(n) > BeforeChunk
                /\ RankOf(n) <= BeforeChunk + Len(chunks[Len(chunks)])
                /\ Cardinality(OkCalls("create_asset")) = RankOf(n) - 1
                /\ Cardinality(CallsOf("create_asset")) = RankOf(n)

\* the second upload of a chunk of two failed: the first file is in the bucket,
\* unregistered
C18_Witness ==
    /\ pc = "aborted"
    /\ batch_size = 2
    /\ Len(chunks) = 1
    /\ Len(chunks[1]) = 2
    /\ Cardinality(OkCalls("upload")) = 1
    /\ calls[Len(calls)].op = "upload"
    /\ calls[Len(calls)].status = "failed"
    /\ CallsOf("create_asset") = {}

----------------------------------------------------------------------------
\* the operations of the calls issued, in order
CallOps == [n \in 1..Len(calls) |-> calls[n].op]

C20_NothingToProcess ==
    Enumerated /\ image_files = <<>> =>
        /\ CallsOf("upload") = {}
        /\ CallsOf("create_asset") = {}
        /\ chunks = <<>>
        /\ pc \notin {"upload", "register", "asset_wait"}
        /\ pc = "done" =>
              /\ CallOps = <<"create_corpus", "create_index", "create_index_endpoint",
                             "deploy_index">>
              /\ \A n \in 1..Len(calls) : calls[n].status = "ok"
              /\ exit_status = "zero"

\* C20: with no supported file under the image directory, process_images
\* uploads nothing, registers nothing, takes no batch and returns normally; the
\* run goes on to create the index, and a run that ends in DONE has issued the
\* corpus, index, endpoint and deploy requests only.  So a created index does
\* not mean that an asset was registered.
C20_EmptyDirectory ==
    /\ []C20_NothingToProcess
    /\ [][Enumerated /\ image_files = <<>> /\ pc = "batch_loop" =>
             pc' = "create_index"]_vars

\* a tree holding one unsupported file only, and the run reported success
C20_Witness ==
    /\ pc = "done"
    /\ image_files = <<>>
    /\ Len(tree[1].files) = 1
    /\ Logged(<<"INFO", "Creating index...">>)
    /\ exit_status = "zero"

----------------------------------------------------------------------------
(* termination and the number of attempts, under SpecCount *)

C19_AttemptBound == http_total <= (Len(image_files) + 4) * (MAX_RETRIES + 1)

\* C19: every run eventually ends, in DONE or aborted, and at no point has it
\* sent more than (N + 4) * (MAX_RETRIES + 1) HTTP attempts, N being the number
\* of enumerated files.
C19_Terminates ==
    /\ <>(pc \in {"done", "aborted"})
    /\ []C19_AttemptBound

\* a run over two files that ended in DONE with every request answered on its
\* last attempt: the bound is met
C19_Witness ==
    /\ pc = "done"
    /\ Len(image_files) = 2
    /\ http_total = (Len(image_files) + 4) * (MAX_RETRIES + 1)

====
